---- MODULE Spec2Model ----
(***************************************************************************)
(* Model of make.py, the build driver of gi-rust/sys-crates: the crate     *)
(* registry, the path filter (_filter_crates), the tools environment, the  *)
(* command runner (_run) and the generate operation.                       *)
(*                                                                         *)
(* A path is a sequence of its segments (the text between separators); a   *)
(* path string is rendered from it with Join when it becomes a command     *)
(* argument.  One behaviour is one run of `make.py generate PATH...`.       *)
(***************************************************************************)
EXTENDS Integers, Sequences, FiniteSets, TLC

VARIABLES
    platform,     \* which os.path flavour the interpreter runs with
    verbose,      \* args.verbose
    crate_paths,  \* args.crate_paths, the list of raw paths of the request
    crates,       \* the module-level registry list
    heap,         \* the two environment mappings, by object: os.environ, tools_env
    pc,           \* position of generate()
    running,      \* child processes started and not yet reaped
    issued,       \* every command handed to subprocess.check_call, in order
    exits,        \* exit status of each reaped child, in order
    queue,        \* crates the for loop of generate has still to visit
    result,       \* value returned by _filter_crates, once it has returned
    error,        \* the exception that ended the run, or NoError
    outputs       \* output files written by generator commands that succeeded

vars == <<platform, verbose, crate_paths, crates, heap, pc, running, issued,
          exits, queue, result, error, outputs>>

(***************************************************************************)
(* Bounds of the model.                                                    *)
(***************************************************************************)
MaxPaths == 2

(***************************************************************************)
(* Inputs.                                                                 *)
(***************************************************************************)
Platforms == {"posix", "nt"}

\* Raw paths a caller may type: exact, dotted, mixed-case and unknown ones.
PathInputs ==
    { <<"crates", "glib-sys">>,
      <<"crates", "gobject-sys">>,
      <<".", "crates", "glib-sys">>,
      <<"crates", "x", "..", "gobject-sys", "">>,
      <<"Crates", "GObject-Sys">>,
      <<"bogus">>,
      <<".", "bogus">>,
      <<"crates", "nope">> }

RECURSIVE SeqsUpTo(_, _)
SeqsUpTo(S, n) ==
    IF n = 0 THEN { <<>> }
    ELSE SeqsUpTo(S, n - 1) \cup
         { Append(s, x) : s \in { t \in SeqsUpTo(S, n - 1) : Len(t) = n - 1 }, x \in S }

Requests == SeqsUpTo(PathInputs, MaxPaths)

\* Process environments the driver may be started in.
Environs ==
    { [PATH |-> "/usr/bin"],
      [PATH |-> "/usr/bin", PYTHONPATH |-> ""],
      [PATH |-> "/usr/bin", PYTHONPATH |-> "/opt/py"] }

ExitStatuses == {0, 1}

NoError == [kind |-> "none"]

Range(s) == { s[i] : i \in DOMAIN s }

(***************************************************************************)
(* os.path                                                                 *)
(***************************************************************************)
Sep(p) == IF p = "nt" THEN "\\" ELSE "/"

PathSep(p) == IF p = "nt" THEN ";" ELSE ":"

\* str.lower on one segment.
Lower(seg) ==
    CASE seg = "Crates"      -> "crates"
      [] seg = "GObject-Sys" -> "gobject-sys"
      [] OTHER               -> seg

\* os.path.normcase: the identity on posix, lower-casing on nt.
normcase(p, path) ==
    IF p = "nt" THEN [i \in DOMAIN path |-> Lower(path[i])] ELSE path

\* os.path.normpath of a relative path: drops "" and ".", resolves "..".
RECURSIVE NormComps(_, _)
NormComps(comps, new_comps) ==
    IF comps = <<>> THEN new_comps
    ELSE LET comp == Head(comps) IN
         IF comp \in {"", "."} THEN NormComps(Tail(comps), new_comps)
         ELSE IF comp # ".." \/ new_comps = <<>>
                 \/ new_comps[Len(new_comps)] = ".."
              THEN NormComps(Tail(comps), Append(new_comps, comp))
              ELSE NormComps(Tail(comps), SubSeq(new_comps, 1, Len(new_comps) - 1))

normpath(path) ==
    LET n == NormComps(path, <<>>) IN IF n = <<>> THEN <<".">> ELSE n

RECURSIVE Join(_, _)
Join(path, sep) ==
    IF path = <<>> THEN ""
    ELSE IF Len(path) = 1 THEN path[1]
    ELSE path[1] \o sep \o Join(Tail(path), sep)

(***************************************************************************)
(* Module-level state                                                      *)
(***************************************************************************)
Crate(p, path, namespace, template) ==
    [path |-> normcase(p, path), namespace |-> namespace, template |-> template]

Registry(p) ==
    << Crate(p, <<"crates", "glib-sys">>, "GLib-2.0", "glib-sys.tmpl"),
       Crate(p, <<"crates", "gobject-sys">>, "GObject-2.0", "gobject-sys.tmpl") >>

\* template=None, the default of Crate.__init__.
NoTemplate == ""

\* Registries the crates list may be edited to: the one in the source, and
\* ones with a descriptor that declares no template.
Registries(p) ==
    { Registry(p),
      Append(Registry(p), Crate(p, <<"crates", "gio-sys">>, "Gio-2.0", NoTemplate)),
      << Crate(p, <<"crates", "gobject-sys">>, "GObject-2.0", NoTemplate),
         Crate(p, <<"crates", "gio-sys">>, "Gio-2.0", "gio-sys.tmpl") >> }

python == "python"

project_root(p) == IF p = "nt" THEN <<"C:", "proj">> ELSE <<"", "proj">>

tools_dir(p) == Append(project_root(p), "tools")

\* Lines 33-37 with PYTHONPATH overwritten whatever its old value.
ToolsEnvReplaces(p, environ) ==
    [n \in DOMAIN environ \cup {"PYTHONPATH"} |->
        IF n = "PYTHONPATH" THEN Join(tools_dir(p), Sep(p)) ELSE environ[n]]

\* Lines 33-37: a copy of os.environ with the tools directory on PYTHONPATH.
ToolsEnv(p, environ) ==
    LET td == Join(tools_dir(p), Sep(p)) IN
    [n \in DOMAIN environ \cup {"PYTHONPATH"} |->
        IF n = "PYTHONPATH"
        THEN IF "PYTHONPATH" \in DOMAIN environ /\ environ["PYTHONPATH"] # ""
             THEN td \o PathSep(p) \o environ["PYTHONPATH"]
             ELSE td
        ELSE environ[n]]

(***************************************************************************)
(* _filter_crates (lines 39-57)                                            *)
(***************************************************************************)
\* Line 43: the set of normalized request paths.
FilterSet(p, paths) == { normcase(p, normpath(paths[i])) : i \in DOMAIN paths }

\* The walk with the result built back to front.
RECURSIVE FilterWalkReversed(_, _, _)
FilterWalkReversed(cs, filter_set, res) ==
    IF cs = <<>> THEN [result |-> res, filter_set |-> filter_set]
    ELSE LET crate == Head(cs) IN
         IF crate.path \in filter_set
         THEN FilterWalkReversed(Tail(cs), filter_set \ {crate.path}, <<crate>> \o res)
         ELSE FilterWalkReversed(Tail(cs), filter_set, res)

\* The walk without line 49: a matched path stays in filter_set.
RECURSIVE FilterWalkKeepsMatched(_, _, _)
FilterWalkKeepsMatched(cs, filter_set, res) ==
    IF cs = <<>> THEN [result |-> res, filter_set |-> filter_set]
    ELSE LET crate == Head(cs) IN
         IF crate.path \in filter_set
         THEN FilterWalkKeepsMatched(Tail(cs), filter_set, Append(res, crate))
         ELSE FilterWalkKeepsMatched(Tail(cs), filter_set, res)

\* Lines 45-49: the walk over the registry; a matched path leaves filter_set.
RECURSIVE FilterWalk(_, _, _)
FilterWalk(cs, filter_set, res) ==
    IF cs = <<>> THEN [result |-> res, filter_set |-> filter_set]
    ELSE LET crate == Head(cs) IN
         IF crate.path \in filter_set
         THEN FilterWalk(Tail(cs), filter_set \ {crate.path}, Append(res, crate))
         ELSE FilterWalk(Tail(cs), filter_set, res)

\* The orders in which iterating a set may yield its elements.
Orderings(S) ==
    { s \in [1..Cardinality(S) -> S] : \A x \in S : \E i \in DOMAIN s : s[i] = x }

Quote(p, path) == "'" \o Join(path, Sep(p)) \o "'"

RECURSIVE JoinStrings(_, _)
JoinStrings(strs, sep) ==
    IF strs = <<>> THEN ""
    ELSE IF Len(strs) = 1 THEN strs[1]
    ELSE strs[1] \o sep \o JoinStrings(Tail(strs), sep)

\* Lines 50-56: the message of the ValueError, for one iteration order.
ErrorMessage(p, named) ==
    IF Len(named) = 1
    THEN "unknown crate path: " \o Quote(p, named[1])
    ELSE "unknown crate paths: "
         \o JoinStrings([i \in DOMAIN named |-> Quote(p, named[i])], ", ")

\* _filter_crates looping over the request instead of the registry.
RECURSIVE RequestWalk(_, _, _, _)
RequestWalk(p, cs, paths, res) ==
    IF paths = <<>> THEN res
    ELSE LET n == normcase(p, normpath(Head(paths)))
             hit == { i \in DOMAIN cs : cs[i].path = n /\ cs[i] \notin Range(res) }
         IN RequestWalk(p, cs, Tail(paths),
                        IF hit = {} THEN res ELSE Append(res, cs[CHOOSE i \in hit : TRUE]))

filter_crates_request_order(p, cs, paths) ==
    IF Len(paths) = 0
    THEN { [kind |-> "return", value |-> cs] }
    ELSE LET w == FilterWalk(cs, FilterSet(p, paths), <<>>) IN
         IF w.filter_set # {}
         THEN { [kind |-> "ValueError", named |-> o, msg |-> ErrorMessage(p, o)]
                : o \in Orderings(w.filter_set) }
         ELSE { [kind |-> "return", value |-> RequestWalk(p, cs, paths, <<>>)] }

\* _filter_crates without the special case of lines 40-41.
filter_crates_no_default(p, cs, paths) ==
    LET w == FilterWalk(cs, FilterSet(p, paths), <<>>) IN
    IF w.filter_set # {}
    THEN { [kind |-> "ValueError", named |-> o, msg |-> ErrorMessage(p, o)]
           : o \in Orderings(w.filter_set) }
    ELSE { [kind |-> "return", value |-> w.result] }

\* _filter_crates without lines 50-56: unknown paths are skipped silently.
filter_crates_skips_unknown(p, cs, paths) ==
    IF Len(paths) = 0
    THEN { [kind |-> "return", value |-> cs] }
    ELSE { [kind |-> "return", value |-> FilterWalk(cs, FilterSet(p, paths), <<>>).result] }

\* _filter_crates appending a crate once for every request path that names it.
RECURSIVE PerPathWalk(_, _, _, _)
PerPathWalk(p, cs, paths, res) ==
    IF cs = <<>> THEN res
    ELSE LET n == Cardinality({ i \in DOMAIN paths :
                                  normcase(p, normpath(paths[i])) = Head(cs).path })
         IN PerPathWalk(p, Tail(cs), paths, res \o [k \in 1..n |-> Head(cs)])

filter_crates_per_path(p, cs, paths) ==
    IF Len(paths) = 0
    THEN { [kind |-> "return", value |-> cs] }
    ELSE LET w == FilterWalk(cs, FilterSet(p, paths), <<>>) IN
         IF w.filter_set # {}
         THEN { [kind |-> "ValueError", named |-> o, msg |-> ErrorMessage(p, o)]
                : o \in Orderings(w.filter_set) }
         ELSE { [kind |-> "return", value |-> PerPathWalk(p, cs, paths, <<>>)] }

\* Every outcome of _filter_crates(paths): the returned list, or a ValueError
\* whose message lists the leftover paths in the set's iteration order.
filter_crates(p, cs, paths) ==
    IF Len(paths) = 0
    THEN { [kind |-> "return", value |-> cs] }
    ELSE LET w == FilterWalk(cs, FilterSet(p, paths), <<>>) IN
         IF w.filter_set # {}
         THEN { [kind |-> "ValueError", named |-> o, msg |-> ErrorMessage(p, o)]
                : o \in Orderings(w.filter_set) }
         ELSE { [kind |-> "return", value |-> w.result] }

(***************************************************************************)
(* _run and the commands (lines 59-88)                                     *)
(***************************************************************************)
\* _run dropping its env keyword: the child inherits os.environ.
run_inherits_environ(p, args, env_ref, cwd) ==
    [args    |-> args,
     env_ref |-> "os.environ",
     cwd     |-> Join(IF cwd = <<>> THEN project_root(p) ELSE cwd, Sep(p))]

\* Lines 59-67: the call handed to subprocess.check_call.  cwd is <<>> when
\* the caller passed none, and then becomes project_root.
run(p, args, env_ref, cwd) ==
    [args    |-> args,
     env_ref |-> env_ref,
     cwd     |-> Join(IF cwd = <<>> THEN project_root(p) ELSE cwd, Sep(p))]

\* install_tools with the verbosity test inverted.
install_tools_quiet_when_verbose(p, v) ==
    LET gen_srcdir == Append(project_root(p), "grust-gen")
        quiet      == IF v THEN <<"--quiet">> ELSE <<>>
        cmd_args   == <<python, "setup.py">> \o quiet
                      \o <<"develop", "--install-dir", Join(tools_dir(p), Sep(p))>>
    IN run(p, cmd_args, "tools_env", gen_srcdir)

\* Lines 69-75.
install_tools(p, v) ==
    LET gen_srcdir == Append(project_root(p), "grust-gen")
        quiet      == IF ~v THEN <<"--quiet">> ELSE <<>>
        cmd_args   == <<python, "setup.py">> \o quiet
                      \o <<"develop", "--install-dir", Join(tools_dir(p), Sep(p))>>
    IN run(p, cmd_args, "tools_env", gen_srcdir)

OutputPath(p, crate) == Join(Append(crate.path, "lib.rs"), Sep(p))

\* The generator command with --template passed unconditionally.
generate_command_always_template(p, crate) ==
    LET grust_gen == Join(Append(tools_dir(p), "grust-gen"), Sep(p))
        cmd_args == <<grust_gen, "--sys", "--include-dir", "gir">>
                    \o <<"--template",
                         Join(Append(crate.path, crate.template), Sep(p))>>
                    \o <<"--output", OutputPath(p, crate)>>
                    \o <<Join(<<"gir", crate.namespace \o ".gir">>, Sep(p))>>
    IN run(p, cmd_args, "tools_env", <<>>)

\* Lines 80-88: the generator command of one crate.
generate_command(p, crate) ==
    LET grust_gen == Join(Append(tools_dir(p), "grust-gen"), Sep(p))
        tmpl == IF crate.template # ""
                THEN <<"--template",
                       Join(Append(crate.path, crate.template), Sep(p))>>
                ELSE <<>>
        cmd_args == <<grust_gen, "--sys", "--include-dir", "gir">> \o tmpl
                    \o <<"--output", OutputPath(p, crate)>>
                    \o <<Join(<<"gir", crate.namespace \o ".gir">>, Sep(p))>>
    IN run(p, cmd_args, "tools_env", <<>>)

(***************************************************************************)
(* The run                                                                 *)
(***************************************************************************)
Init ==
    /\ platform \in Platforms
    /\ verbose \in BOOLEAN
    /\ crate_paths \in Requests
    /\ crates = Registry(platform)
    /\ \E environ \in Environs :
          heap = [o \in {"os.environ", "tools_env"} |->
                     IF o = "os.environ" THEN environ
                     ELSE ToolsEnv(platform, environ)]
    /\ pc = "NotStarted"
    /\ running = {}
    /\ issued = <<>>
    /\ exits = <<>>
    /\ queue = <<>>
    /\ result = <<>>
    /\ error = NoError
    /\ outputs = {}

\* check_call starts the child and blocks until it exits.
Issue(cmd) ==
    /\ issued' = Append(issued, cmd)
    /\ running' = running \cup {Len(issued) + 1}

\* generate without line 78.
InstallToolsSkipped ==
    /\ pc = "NotStarted"
    /\ pc' = "ToolsInstalled"
    /\ UNCHANGED <<platform, verbose, crate_paths, crates, heap, running, issued,
                   exits, queue, result, error, outputs>>

\* Line 78: generate calls install_tools, which runs the install command.
InstallTools ==
    /\ pc = "NotStarted"
    /\ Issue(install_tools(platform, verbose))
    /\ pc' = "Installing"
    /\ UNCHANGED <<platform, verbose, crate_paths, crates, heap, exits, queue,
                   result, error, outputs>>

\* The child exits; check_call reaps it.
Reap(status) ==
    /\ running # {}
    /\ LET child == CHOOSE c \in running : \A d \in running : c >= d IN
          /\ running' = running \ {child}
          /\ exits' = Append(exits, [child |-> child, status |-> status])

\* Line 75 returns: the install command exited with status zero.
InstallReturn ==
    /\ pc = "Installing"
    /\ Reap(0)
    /\ pc' = "ToolsInstalled"
    /\ UNCHANGED <<platform, verbose, crate_paths, crates, heap, issued, queue,
                   result, error, outputs>>

\* Line 81: _filter_crates(args.crate_paths) returns the crates to loop over,
\* or raises ValueError, which ends the run.
Filter ==
    /\ pc = "ToolsInstalled"
    /\ \E out \in filter_crates(platform, crates, crate_paths) :
          IF out.kind = "return"
          THEN /\ result' = out.value
               /\ queue' = out.value
               /\ pc' = IF out.value = <<>> THEN "Done" ELSE "Loop"
               /\ error' = error
          ELSE /\ error' = out
               /\ pc' = "Failed"
               /\ UNCHANGED <<result, queue>>
    /\ UNCHANGED <<platform, verbose, crate_paths, crates, heap, running,
                   issued, exits, outputs>>

\* The loop body starting the generator without waiting for it.
GenerateCrateNoWait ==
    /\ pc = "Loop"
    /\ queue # <<>>
    /\ issued' = Append(issued, generate_command(platform, Head(queue)))
    /\ running' = running \cup {Len(issued) + 1}
    /\ queue' = Tail(queue)
    /\ pc' = IF Tail(queue) = <<>> THEN "Done" ELSE "Loop"
    /\ UNCHANGED <<platform, verbose, crate_paths, crates, heap, exits,
                   result, error, outputs>>

\* Lines 81-88: the loop body runs the generator for the next crate.
GenerateCrate ==
    /\ pc = "Loop"
    /\ queue # <<>>
    /\ Issue(generate_command(platform, Head(queue)))
    /\ pc' = "Generating"
    /\ UNCHANGED <<platform, verbose, crate_paths, crates, heap, exits, queue,
                   result, error, outputs>>

\* The loop leaving after its first iteration.
CrateReturnEndsLoop ==
    /\ pc = "Generating"
    /\ running # {}
    /\ running' = {}
    /\ exits' = Append(exits, [child |-> Len(issued), status |-> 0])
    /\ outputs' = outputs \cup {OutputPath(platform, Head(queue))}
    /\ queue' = <<>>
    /\ pc' = "Done"
    /\ UNCHANGED <<platform, verbose, crate_paths, crates, heap, issued,
                   result, error>>

\* The loop waiting again for the child it has already reaped.
CrateReturnWaitsAgain ==
    /\ pc = "Generating"
    /\ Reap(0)
    /\ outputs' = outputs \cup {OutputPath(platform, Head(queue))}
    /\ queue' = Tail(queue)
    /\ pc' = "Generating"
    /\ UNCHANGED <<platform, verbose, crate_paths, crates, heap, issued,
                   result, error>>

\* The loop consuming a list that is the registry itself, not a copy of it.
CrateReturnConsumesRegistry ==
    /\ pc = "Generating"
    /\ Reap(0)
    /\ outputs' = outputs \cup {OutputPath(platform, Head(queue))}
    /\ queue' = Tail(queue)
    /\ crates' = IF result = crates THEN Tail(queue) ELSE crates
    /\ pc' = IF Tail(queue) = <<>> THEN "Done" ELSE "Loop"
    /\ UNCHANGED <<platform, verbose, crate_paths, heap, issued, result, error>>

\* Line 88 returns: the generator exited with zero, having written its output
\* file; the loop moves on, and generate returns after the last crate.
CrateReturn ==
    /\ pc = "Generating"
    /\ Reap(0)
    /\ outputs' = outputs \cup {OutputPath(platform, Head(queue))}
    /\ queue' = Tail(queue)
    /\ pc' = IF Tail(queue) = <<>> THEN "Done" ELSE "Loop"
    /\ UNCHANGED <<platform, verbose, crate_paths, crates, heap, issued,
                   result, error>>

\* A non-zero exit status that is logged and ignored.
CommandFailedContinues ==
    /\ pc \in {"Installing", "Generating"}
    /\ running # {}
    /\ running' = {}
    /\ exits' = Append(exits, [child |-> Len(issued), status |-> 1])
    /\ pc' = IF pc = "Installing" THEN "ToolsInstalled"
             ELSE IF Tail(queue) = <<>> THEN "Done" ELSE "Loop"
    /\ queue' = IF pc = "Installing" THEN queue ELSE Tail(queue)
    /\ UNCHANGED <<platform, verbose, crate_paths, crates, heap, issued,
                   result, error, outputs>>

\* A failure handler that deletes what the run generated so far.
CommandFailedCleansUp ==
    /\ pc \in {"Installing", "Generating"}
    /\ \E status \in ExitStatuses \ {0} : Reap(status)
    /\ error' = [kind |-> "CalledProcessError"]
    /\ pc' = "Failed"
    /\ outputs' = {}
    /\ UNCHANGED <<platform, verbose, crate_paths, crates, heap, issued, queue,
                   result>>

\* Line 67: check_call raises CalledProcessError on a non-zero exit status;
\* nothing catches it, so the run ends.
CommandFailed ==
    /\ pc \in {"Installing", "Generating"}
    /\ \E status \in ExitStatuses \ {0} : Reap(status)
    /\ error' = [kind |-> "CalledProcessError"]
    /\ pc' = "Failed"
    /\ UNCHANGED <<platform, verbose, crate_paths, crates, heap, issued, queue,
                   result, outputs>>

Next ==
    \/ InstallTools
    \/ InstallReturn
    \/ Filter
    \/ GenerateCrate
    \/ CrateReturn
    \/ CommandFailed

Spec == Init /\ [][Next]_vars

\* The run when every child process eventually exits and the interpreter
\* keeps executing generate: check_call (line 67) returns or raises once its
\* child has exited, and the statements of lines 77-88 run one after another.
FairSpec ==
    /\ Spec
    /\ WF_vars(InstallReturn \/ CrateReturn \/ CommandFailed)
    /\ WF_vars(InstallTools \/ Filter \/ GenerateCrate)

\* The run over any of the registries: generate applied to descriptors with
\* and without a template.
InitAnyRegistry ==
    /\ platform \in Platforms
    /\ verbose \in BOOLEAN
    /\ crate_paths \in Requests
    /\ crates \in Registries(platform)
    /\ \E environ \in Environs :
          heap = [o \in {"os.environ", "tools_env"} |->
                     IF o = "os.environ" THEN environ
                     ELSE ToolsEnv(platform, environ)]
    /\ pc = "NotStarted"
    /\ running = {}
    /\ issued = <<>>
    /\ exits = <<>>
    /\ queue = <<>>
    /\ result = <<>>
    /\ error = NoError
    /\ outputs = {}

SpecAnyRegistry == InitAnyRegistry /\ [][Next]_vars

(***************************************************************************)
(* Vocabulary of the properties                                            *)
(***************************************************************************)
IsInstall(cmd) == Len(cmd.args) >= 2 /\ cmd.args[2] = "setup.py"

\* Some reaped child exited with a non-zero status.
HasFailed == \E i \in DOMAIN exits : exits[i].status # 0

ExitedZero(child) == \E i \in DOMAIN exits : exits[i] = [child |-> child, status |-> 0]

\* _filter_crates has been called and has returned or raised.
FilterDone ==
    /\ pc \notin {"NotStarted", "Installing", "ToolsInstalled"}
    /\ ExitedZero(1)

RegistryPaths == { crates[i].path : i \in DOMAIN crates }

Normalized(path) == normcase(platform, normpath(path))

\* Request paths that match no registry crate, as typed and as normalized.
UnmatchedRaw ==
    { crate_paths[i] : i \in { j \in DOMAIN crate_paths :
                                 Normalized(crate_paths[j]) \notin RegistryPaths } }

UnmatchedNorm == { Normalized(path) : path \in UnmatchedRaw }

Requested(crate) == \E i \in DOMAIN crate_paths : Normalized(crate_paths[i]) = crate.path

\* The crates a request selects, stated on the registry directly.
Selected ==
    IF crate_paths = <<>> THEN crates ELSE SelectSeq(crates, Requested)

Rearrangements(s) ==
    { [i \in DOMAIN s |-> s[f[i]]] : f \in Permutations(DOMAIN s) }

(***************************************************************************)
(* C1: in a run whose request holds a path matching no registry crate, the *)
(* unknown-crate-path error is raised before any subprocess has been run:  *)
(* no command, the install command included, has been issued.              *)
(***************************************************************************)
C1_UnknownPathBeforeAnyCommand ==
    error.kind = "ValueError" => issued = <<>>

(***************************************************************************)
(* C2: once a child exits with a non-zero status the run is in Failed, the *)
(* failed command is the last one issued, and no command is issued in any  *)
(* later step.                                                             *)
(***************************************************************************)
C2_FailureStopsRun ==
    [][ /\ HasFailed' => /\ pc' = "Failed"
                         /\ exits'[Len(exits')].child = Len(issued')
                         /\ exits'[Len(exits')].status # 0
        /\ HasFailed => issued' = issued ]_vars

C2_Witness ==
    /\ pc = "Failed"
    /\ HasFailed
    /\ Len(queue) = 2
    /\ Len(issued) = 2

(***************************************************************************)
(* C3: the install command is the first command issued and the only        *)
(* install command; a generation command is issued only after the install  *)
(* command exited with status zero; a finished run has issued it.          *)
(***************************************************************************)
C3_InstallFirstOnce ==
    /\ \A i \in DOMAIN issued : IsInstall(issued[i]) <=> i = 1
    /\ Len(issued) >= 2 => exits[1] = [child |-> 1, status |-> 0]
    /\ pc \in {"Done", "Failed"} => Len(issued) >= 1

C3_Witness ==
    /\ pc = "Done"
    /\ Len(crate_paths) = 1
    /\ Len(issued) = 2
    /\ issued[2] = generate_command(platform, crates[2])

(***************************************************************************)
(* C4: in a run that ends in Done the generation commands issued are one   *)
(* per selected crate, in registry order: two for the empty request, for   *)
(* GLib-2.0 then GObject-2.0, and one when only the second crate is named. *)
(***************************************************************************)
C4_CommandsFollowRegistryOrder ==
    pc = "Done" =>
        LET gen == Tail(issued) IN
        /\ Len(gen) = Len(Selected)
        /\ \A i \in DOMAIN gen : gen[i] = generate_command(platform, Selected[i])
        /\ crate_paths = <<>> =>
              /\ Len(gen) = 2
              /\ gen[1].args[Len(gen[1].args)] = "gir" \o Sep(platform) \o "GLib-2.0.gir"
              /\ gen[2].args[Len(gen[2].args)] = "gir" \o Sep(platform) \o "GObject-2.0.gir"
        /\ { Normalized(crate_paths[i]) : i \in DOMAIN crate_paths } = {crates[2].path} =>
              /\ Len(gen) = 1
              /\ gen[1].args[Len(gen[1].args)] = "gir" \o Sep(platform) \o "GObject-2.0.gir"

C4_Witness ==
    /\ pc = "Done"
    /\ crate_paths = << <<"crates", "gobject-sys">>, <<".", "crates", "glib-sys">> >>
    /\ Len(issued) = 3

(***************************************************************************)
(* C5: a run ends in Done exactly when no requested path is unmatched and  *)
(* the install command and the command of every selected crate exited with *)
(* status zero; a run that ends in Failed has an unmatched path or a       *)
(* command that exited non-zero.                                           *)
(***************************************************************************)
C5_DoneIffAllSucceeded ==
    /\ pc = "Done" =>
          /\ UnmatchedRaw = {}
          /\ ExitedZero(1)
          /\ \A k \in DOMAIN Selected :
                \E i \in DOMAIN issued :
                   /\ issued[i] = generate_command(platform, Selected[k])
                   /\ ExitedZero(i)
          /\ ~HasFailed
          /\ running = {}
    /\ pc = "Failed" => UnmatchedRaw # {} \/ HasFailed

C5_Witness ==
    /\ pc = "Done"
    /\ crate_paths = <<>>
    /\ Len(exits) = 3

(***************************************************************************)
(* C6: at most one child process is in flight, it is the command issued    *)
(* last, and every earlier command has exited.                             *)
(***************************************************************************)
C6_OneChildAtATime ==
    /\ Cardinality(running) <= 1
    /\ running \subseteq {Len(issued)}
    /\ \A i \in DOMAIN issued : i < Len(issued) => \E j \in DOMAIN exits : exits[j].child = i

C6_Witness ==
    /\ Len(issued) = 3
    /\ running = {3}

(***************************************************************************)
(* C7: for a non-empty request whose paths all normalize to registry       *)
(* paths, _filter_crates returns the registry crates whose path is among   *)
(* the normalized request paths, in registry order, and every              *)
(* rearrangement of the request gives the same result.                     *)
(***************************************************************************)
C7_FilterKeepsRegistryOrder ==
    (FilterDone /\ crate_paths # <<>> /\ UnmatchedRaw = {}) =>
        /\ error.kind # "ValueError"
        /\ result = SelectSeq(crates, Requested)
        /\ \A q \in Rearrangements(crate_paths) :
              filter_crates(platform, crates, q) = { [kind |-> "return", value |-> result] }

C7_Witness ==
    /\ FilterDone
    /\ crate_paths = << <<"crates", "x", "..", "gobject-sys", "">>, <<"crates", "glib-sys">> >>
    /\ result = crates

(***************************************************************************)
(* C8: for the empty request _filter_crates returns the whole registry,    *)
(* every crate once, in registry order, and raises no error.               *)
(***************************************************************************)
C8_EmptyRequestSelectsAll ==
    (FilterDone /\ crate_paths = <<>>) =>
        /\ error.kind # "ValueError"
        /\ result = Registry(platform)
        /\ \A i, j \in DOMAIN result : result[i] = result[j] => i = j

C8_Witness ==
    /\ FilterDone
    /\ crate_paths = <<>>
    /\ Len(result) = 2

(***************************************************************************)
(* C9 as stated: _filter_crates fails iff some requested path matches no   *)
(* registry crate; the message names the unmatched paths and no other, in  *)
(* the single-path form when one requested path is unmatched and in the    *)
(* list form, naming each of them, when two or more are.                   *)
(***************************************************************************)
C9_Original ==
    FilterDone =>
        /\ error.kind = "ValueError" <=> UnmatchedRaw # {}
        /\ error.kind = "ValueError" =>
              /\ Range(error.named) = UnmatchedNorm
              /\ Cardinality(UnmatchedRaw) = 1 =>
                    error.msg = "unknown crate path: " \o Quote(platform, error.named[1])
              /\ Cardinality(UnmatchedRaw) >= 2 =>
                    /\ Len(error.named) = Cardinality(UnmatchedRaw)
                    /\ error.msg = "unknown crate paths: "
                          \o JoinStrings([i \in DOMAIN error.named |->
                                            Quote(platform, error.named[i])], ", ")

(***************************************************************************)
(* C9 amended: _filter_crates fails iff some requested path matches no     *)
(* registry crate; the message names the distinct normalized forms of the  *)
(* unmatched paths, each once and no matched path: the single-path form    *)
(* when one normalized form is left, the quoted, comma-joined list, in     *)
(* some order, when two or more are left.                                  *)
(***************************************************************************)
C9_ErrorNamesNormalizedUnmatched ==
    FilterDone =>
        /\ error.kind = "ValueError" <=> UnmatchedRaw # {}
        /\ error.kind = "ValueError" =>
              /\ Range(error.named) = UnmatchedNorm
              /\ Len(error.named) = Cardinality(UnmatchedNorm)
              /\ Range(error.named) \cap RegistryPaths = {}
              /\ Cardinality(UnmatchedNorm) = 1 =>
                    error.msg = "unknown crate path: " \o Quote(platform, error.named[1])
              /\ Cardinality(UnmatchedNorm) >= 2 =>
                    error.msg = "unknown crate paths: "
                       \o JoinStrings([i \in DOMAIN error.named |->
                                         Quote(platform, error.named[i])], ", ")

C9_Witness ==
    /\ pc = "Failed"
    /\ error.kind = "ValueError"
    /\ crate_paths = << <<"crates", "nope">>, <<".", "bogus">> >>
    /\ error.msg = "unknown crate paths: 'bogus', 'crates/nope'"

C11_ToolsDirPrepended ==
    \A i \in DOMAIN issued :
        LET child_env == heap[issued[i].env_ref]
            environ   == heap["os.environ"]
            td        == IF platform = "nt" THEN "C:\\proj\\tools" ELSE "/proj/tools"
            sep       == IF platform = "nt" THEN ";" ELSE ":"
        IN /\ DOMAIN child_env = DOMAIN environ \cup {"PYTHONPATH"}
           /\ \A n \in DOMAIN environ \ {"PYTHONPATH"} : child_env[n] = environ[n]
           /\ "PYTHONPATH" \notin DOMAIN environ => child_env["PYTHONPATH"] = td
           /\ "PYTHONPATH" \in DOMAIN environ =>
                 child_env["PYTHONPATH"] =
                    IF environ["PYTHONPATH"] = "" THEN td
                    ELSE td \o sep \o environ["PYTHONPATH"]

C11_Witness ==
    /\ Len(issued) = 2
    /\ platform = "posix"
    /\ heap["os.environ"] = [PATH |-> "/usr/bin", PYTHONPATH |-> "/opt/py"]
    /\ heap[issued[2].env_ref] = [PATH |-> "/usr/bin", PYTHONPATH |-> "/proj/tools:/opt/py"]

\* Position of an argument in an argument vector, 0 when absent.
ArgIndex(args, flag) ==
    IF \E k \in DOMAIN args : args[k] = flag
    THEN CHOOSE k \in DOMAIN args : args[k] = flag
    ELSE 0

\* The i-th command issued is the generator command of the crate result[i-1]
\* alone, writing the file named lib_name in that crate's directory.
CommandOfOwnCrate(i, lib_name) ==
    LET crate == result[i - 1]
        args  == issued[i].args
        dir   == Join(crate.path, Sep(platform))
        t     == ArgIndex(args, "--template")
        o     == ArgIndex(args, "--output")
    IN /\ args[Len(args)] = "gir" \o Sep(platform) \o crate.namespace \o ".gir"
       /\ t # 0 <=> crate.template # NoTemplate
       /\ t # 0 => args[t + 1] = dir \o Sep(platform) \o crate.template
       /\ o # 0
       /\ args[o + 1] = dir \o Sep(platform) \o lib_name

DistinctOutputs ==
    \A i, j \in 2..Len(issued) :
        i # j => issued[i].args[ArgIndex(issued[i].args, "--output") + 1]
                 # issued[j].args[ArgIndex(issued[j].args, "--output") + 1]

(***************************************************************************)
(* C12 as stated: each generation command ends with gir/<namespace>.gir of *)
(* its crate, carries --template (inside the crate's path) iff the         *)
(* descriptor declares a template, and writes the file `lib` under the     *)
(* crate's own path; no two commands share an output path.                 *)
(***************************************************************************)
C12_Original ==
    /\ \A i \in 2..Len(issued) : CommandOfOwnCrate(i, "lib")
    /\ DistinctOutputs

(***************************************************************************)
(* C12 amended: each generation command ends with gir/<namespace>.gir of   *)
(* its crate, carries --template (inside the crate's path) iff the         *)
(* descriptor declares a template, and writes the file `lib.rs` under the  *)
(* crate's own path; no two commands share an output path.                 *)
(***************************************************************************)
C12_CommandFromOwnDescriptor ==
    /\ \A i \in 2..Len(issued) : CommandOfOwnCrate(i, "lib.rs")
    /\ DistinctOutputs

C12_Witness ==
    /\ Len(issued) = 4
    /\ platform = "posix"
    /\ ArgIndex(issued[2].args, "--template") # 0
    /\ ArgIndex(issued[4].args, "--template") = 0
    /\ issued[4].args = <<"/proj/tools/grust-gen", "--sys", "--include-dir", "gir",
                          "--output", "crates/gio-sys/lib.rs", "gir/Gio-2.0.gir">>

(***************************************************************************)
(* C13: the step into Failed changes no output file, and in Failed the     *)
(* output of every crate whose command exited with zero is still there.    *)
(***************************************************************************)
C13_NoRollbackOnFailure ==
    [][ pc' = "Failed" =>
          /\ outputs' = outputs
          /\ \A i \in 2..Len(issued') :
                (ExitedZero(i))' => OutputPath(platform, result[i - 1]) \in outputs' ]_vars

C13_Witness ==
    /\ pc = "Failed"
    /\ HasFailed
    /\ Len(issued) = 3
    /\ outputs = {OutputPath(platform, crates[1])}

Terminated == pc \in {"Done", "Failed"}

(***************************************************************************)
(* C14: when every child process eventually exits, the run eventually      *)
(* reaches Done or Failed; it never issues more than one command plus one  *)
(* per registry crate; and a run that is not over and has no child in      *)
(* flight can always take its next step, so only a child that never exits  *)
(* keeps a run from terminating.                                           *)
(***************************************************************************)
C14_RunTerminates ==
    /\ <>Terminated
    /\ [](Len(issued) <= 1 + Len(crates))
    /\ []((~Terminated /\ running = {}) => ENABLED (InstallTools \/ Filter \/ GenerateCrate))
    /\ []((~Terminated /\ running # {}) => ENABLED (InstallReturn \/ CrateReturn \/ CommandFailed))

C14_Witness ==
    /\ pc = "Done"
    /\ Len(issued) = 1 + Len(crates)
    /\ running = {}

\* The request names at least one registry crate and at least one unknown path.
MixedRequest ==
    /\ UnmatchedRaw # {}
    /\ \E i \in DOMAIN crate_paths : Normalized(crate_paths[i]) \in RegistryPaths

(***************************************************************************)
(* C15: for a request that mixes matched and unmatched paths, once         *)
(* _filter_crates has run the run is in Failed with the ValueError, and    *)
(* the install command is the only command issued: no generation command   *)
(* was issued and no output written, for the matched crates either.        *)
(***************************************************************************)
C15_MixedRequestGeneratesNothing ==
    (FilterDone /\ MixedRequest) =>
        /\ pc = "Failed"
        /\ error.kind = "ValueError"
        /\ Len(issued) = 1
        /\ IsInstall(issued[1])
        /\ queue = <<>>
        /\ outputs = {}

C15_Witness ==
    /\ pc = "Failed"
    /\ crate_paths = << <<"crates", "glib-sys">>, <<"bogus">> >>
    /\ error.kind = "ValueError"
    /\ error.named = << <<"bogus">> >>
    /\ Len(issued) = 1

(***************************************************************************)
(* C16: the list _filter_crates returns holds each registry crate at most  *)
(* once; a request whose paths all normalize to registry paths raises no   *)
(* error even when several of them normalize to the same path; and a run   *)
(* issues at most one generation command per crate.                        *)
(***************************************************************************)
C16_EachCrateAtMostOnce ==
    /\ \A i, j \in DOMAIN result : result[i] = result[j] => i = j
    /\ (FilterDone /\ UnmatchedRaw = {}) =>
          /\ error.kind # "ValueError"
          /\ Len(result) = Cardinality({ c \in Range(crates) : crate_paths = <<>> \/ Requested(c) })
    /\ \A i, j \in 2..Len(issued) : issued[i] = issued[j] => i = j
    /\ \A k \in DOMAIN crates :
          Cardinality({ i \in 2..Len(issued) :
                          issued[i] = generate_command(platform, crates[k]) }) <= 1

C16_Witness ==
    /\ pc = "Done"
    /\ crate_paths = << <<"crates", "glib-sys">>, <<".", "crates", "glib-sys">> >>
    /\ result = << crates[1] >>
    /\ Len(issued) = 2

C18_InstallCommand ==
    issued # <<>> =>
        LET cmd  == issued[1]
            root == IF platform = "nt" THEN "C:\\proj" ELSE "/proj"
            n    == Len(cmd.args)
        IN /\ (\E k \in DOMAIN cmd.args : cmd.args[k] = "--quiet") <=> ~verbose
           /\ n = IF verbose THEN 5 ELSE 6
           /\ SubSeq(cmd.args, 1, 2) = <<"python", "setup.py">>
           /\ SubSeq(cmd.args, n - 2, n) =
                 <<"develop", "--install-dir", root \o Sep(platform) \o "tools">>
           /\ cmd.env_ref = "tools_env"
           /\ cmd.cwd = root \o Sep(platform) \o "grust-gen"

C18_Witness ==
    /\ verbose
    /\ platform = "posix"
    /\ issued # <<>>
    /\ issued[1].args = <<"python", "setup.py", "develop", "--install-dir", "/proj/tools">>
    /\ issued[1].cwd = "/proj/grust-gen"

====
